---------------------------- MODULE Spec2Model ----------------------------
(***************************************************************************)
(* Model of lichess-time-spent: the PGN visitor of src/src/visitor.rs that *)
(* reconstructs the duration of every game from its clock comments and     *)
(* aggregates it per player and per time-control bucket, and the driver of *)
(* src/src/main.rs.                                                        *)
(*                                                                         *)
(* Strings of the program that are parsed (comments, header values) are    *)
(* sequences of one-character strings, so that the parsers are modelled by *)
(* what they do.  Option<T> is a sequence of length 0 (None) or 1 (Some),  *)
(* and so is the outcome of a call that can panic (<<>> is the panic).     *)
(***************************************************************************)
EXTENDS Integers, Sequences, FiniteSets, TLC

VARIABLES
    games,      \* PgnVisitor.games
    users,      \* PgnVisitor.users: username -> TimeSpents
    game,       \* PgnVisitor.game: the game being read
    pb,         \* position of PgnVisitor.pb, the progress bar
    pc,         \* where the reader is in the event stream
    finished,   \* end_game's locals, from its return to the next begin_game
    appeared,   \* history: username -> bucket -> qualifying games played in
    inp,        \* the arguments handed to the function under test
    out         \* what the function under test returned

vars == <<games, users, game, pb, pc, finished, appeared, inp, out>>

---------------------------------------------------------------------------
(* Option and panics *)

None == <<>>

Some(x) == <<x>>

IsSome(o) == Len(o) = 1

Unwrap(o) == o[1]

---------------------------------------------------------------------------
(* str::split_once, str::parse::<u64> *)

\* the index at which pat first occurs in s, 0 when it does not
Find(s, pat) ==
    LET hits == {i \in 1..(Len(s) - Len(pat) + 1) :
                     SubSeq(s, i, i + Len(pat) - 1) = pat}
    IN  IF hits = {} THEN 0 ELSE CHOOSE i \in hits : \A j \in hits : i <= j

split_once(s, pat) ==
    LET i == Find(s, pat)
    IN  IF i = 0 THEN None
        ELSE Some(<<SubSeq(s, 1, i - 1), SubSeq(s, i + Len(pat), Len(s))>>)

Digits == <<"0", "1", "2", "3", "4", "5", "6", "7", "8", "9">>

IsDigit(c) == \E d \in 1..Len(Digits) : Digits[d] = c

DigitVal(c) == (CHOOSE d \in 1..Len(Digits) : Digits[d] = c) - 1

RECURSIVE DigitsVal(_)
DigitsVal(s) ==
    IF s = <<>> THEN 0
    ELSE 10 * DigitsVal(SubSeq(s, 1, Len(s) - 1)) + DigitVal(s[Len(s)])

\* u64::from_str: an optional leading "+", then at least one digit, digits only
parse(s) ==
    LET body == IF s # <<>> /\ s[1] = "+" THEN Tail(s) ELSE s
    IN  IF body # <<>> /\ \A i \in 1..Len(body) : IsDigit(body[i])
        THEN Some(DigitsVal(body))
        ELSE None

---------------------------------------------------------------------------
(* RawHeader::decode_utf8, String::from_utf8_lossy *)

\* a byte that is no UTF-8, and the character from_utf8_lossy puts in its place
InvalidByte == "0xFF"

ReplacementChar == "U+FFFD"

decode_utf8(value) ==
    IF \E i \in 1..Len(value) : value[i] = InvalidByte THEN None ELSE Some(value)

from_utf8_lossy(bytes) ==
    [i \in 1..Len(bytes) |->
        IF bytes[i] = InvalidByte THEN ReplacementChar ELSE bytes[i]]

---------------------------------------------------------------------------
(* Tc, tc_to_tuple, comment_to_duration *)

Tc_new(base, increment) == [base |-> base, increment |-> increment]

Tc_default == Tc_new(0, 0)

AvgMoves == 40

average_time(tc) == tc.base + AvgMoves * tc.increment

tc_to_tuple(tc) ==
    LET sp == split_once(tc, <<"+">>)
    IN  IF ~IsSome(sp) THEN None
        ELSE LET base == parse(Unwrap(sp)[1])
                 increment == parse(Unwrap(sp)[2])
             IN  IF IsSome(base) /\ IsSome(increment)
                 THEN Some(Tc_new(Unwrap(base), Unwrap(increment)))
                 ELSE None

ClkTag == <<"[", "%", "c", "l", "k", " ">>

SecsPerHour == 3600

SecsPerMin == 60

comment_to_duration(comment) ==
    LET a == split_once(comment, ClkTag)
    IN  IF ~IsSome(a) THEN None
        ELSE
        LET b == split_once(Unwrap(a)[2], <<":">>)
        IN  IF ~IsSome(b) THEN None
            ELSE
            LET c == split_once(Unwrap(b)[2], <<":">>)
            IN  IF ~IsSome(c) THEN None
                ELSE
                LET d == split_once(Unwrap(c)[2], <<"]">>)
                IN  IF ~IsSome(d) THEN None
                    ELSE
                    LET h == parse(Unwrap(b)[1])
                        m == parse(Unwrap(c)[1])
                        s == parse(Unwrap(d)[1])
                    IN  IF IsSome(h) /\ IsSome(m) /\ IsSome(s)
                        THEN Some(Unwrap(h) * SecsPerHour
                                  + Unwrap(m) * SecsPerMin + Unwrap(s))
                        ELSE None

---------------------------------------------------------------------------
(* Players, TimeSpent, TimeSpents *)

Player_default == [username |-> <<>>, rating |-> 0]

Players_default == [white |-> Player_default, black |-> Player_default]

\* the identities kept in the order they come: the first free side is filled
add_name_in_order(players, key, value) ==
    IF players.white.username = <<>>
    THEN [players EXCEPT !.white.username = value]
    ELSE [players EXCEPT !.black.username = value]

add_name(players, key, value) ==
    IF key = "White"
    THEN [players EXCEPT !.white.username = value]
    ELSE [players EXCEPT !.black.username = value]

\* value.parse().unwrap(): no rating when the value is no number
add_rating(players, key, value) ==
    LET r == parse(value)
    IN  IF ~IsSome(r) THEN None
        ELSE IF key = "WhiteElo"
             THEN Some([players EXCEPT !.white.rating = Unwrap(r)])
             ELSE Some([players EXCEPT !.black.rating = Unwrap(r)])

Players_into_iter(players) ==
    << <<players.white.username, players.white.rating>>,
       <<players.black.username, players.black.rating>> >>

TimeSpent_default ==
    [nb_games |-> 0, total_rating |-> 0,
     time_spent_exact |-> 0, time_spent_approximate |-> 0]

TimeSpent_add_game(ts, game_exact_duration, game_approximate_duration, rating) ==
    [nb_games |-> ts.nb_games + 1,
     total_rating |-> ts.total_rating + rating,
     time_spent_exact |-> ts.time_spent_exact + game_exact_duration,
     time_spent_approximate |->
         ts.time_spent_approximate + game_approximate_duration]

TimeSpents_default ==
    [ultrabullet |-> TimeSpent_default, bullet |-> TimeSpent_default,
     blitz |-> TimeSpent_default, rapid |-> TimeSpent_default,
     classical |-> TimeSpent_default]

UltrabulletMax == 29

BulletMax == 179

BlitzMax == 479

RapidMax == 1499

\* the bounds taken as exclusive
TimeSpents_add_game_exclusive(tss, game_exact_duration, avg_time, rating) ==
    IF avg_time < UltrabulletMax
    THEN [tss EXCEPT !.ultrabullet =
              TimeSpent_add_game(@, game_exact_duration, avg_time, rating)]
    ELSE IF avg_time < BulletMax
    THEN [tss EXCEPT !.bullet =
              TimeSpent_add_game(@, game_exact_duration, avg_time, rating)]
    ELSE IF avg_time < BlitzMax
    THEN [tss EXCEPT !.blitz =
              TimeSpent_add_game(@, game_exact_duration, avg_time, rating)]
    ELSE IF avg_time < RapidMax
    THEN [tss EXCEPT !.rapid =
              TimeSpent_add_game(@, game_exact_duration, avg_time, rating)]
    ELSE [tss EXCEPT !.classical =
              TimeSpent_add_game(@, game_exact_duration, avg_time, rating)]

TimeSpents_add_game(tss, game_exact_duration, avg_time, rating) ==
    IF avg_time <= UltrabulletMax
    THEN [tss EXCEPT !.ultrabullet =
              TimeSpent_add_game(@, game_exact_duration, avg_time, rating)]
    ELSE IF avg_time <= BulletMax
    THEN [tss EXCEPT !.bullet =
              TimeSpent_add_game(@, game_exact_duration, avg_time, rating)]
    ELSE IF avg_time <= BlitzMax
    THEN [tss EXCEPT !.blitz =
              TimeSpent_add_game(@, game_exact_duration, avg_time, rating)]
    ELSE IF avg_time <= RapidMax
    THEN [tss EXCEPT !.rapid =
              TimeSpent_add_game(@, game_exact_duration, avg_time, rating)]
    ELSE [tss EXCEPT !.classical =
              TimeSpent_add_game(@, game_exact_duration, avg_time, rating)]

---------------------------------------------------------------------------
(* TimeSpent::to_csv, TimeSpents::to_csv and the file that main writes.  A  *)
(* line is the sequence of the pieces of text written to it; a figure is    *)
(* written digit by digit.                                                  *)

\* Display of an unsigned integer: its decimal digits
RECURSIVE fmt(_)
fmt(n) ==
    IF n < 10 THEN <<Digits[n + 1]>>
    ELSE Append(fmt(n \div 10), Digits[(n % 10) + 1])

TimeSpent_to_csv(ts) ==
    IF ts.nb_games > 0 /\ ts.time_spent_exact # 0 /\ ts.time_spent_approximate > 0
    THEN <<",">> \o fmt(ts.nb_games)
         \o <<",">> \o fmt(ts.total_rating \div ts.nb_games)
         \o <<",">> \o fmt(ts.time_spent_approximate)
         \o <<",">> \o fmt(ts.time_spent_exact)
    ELSE <<",", ",", ",">>

TimeSpents_to_csv(tss) ==
    TimeSpent_to_csv(tss.ultrabullet) \o TimeSpent_to_csv(tss.bullet)
    \o TimeSpent_to_csv(tss.blitz) \o TimeSpent_to_csv(tss.rapid)
    \o TimeSpent_to_csv(tss.classical)

Perfs == <<"ultrabullet", "bullet", "blitz", "rapid", "classical">>

RECURSIVE PerfColumns(_)
PerfColumns(perfs) ==
    IF perfs = <<>> THEN <<>>
    ELSE <<perfs[1], "_games", ",", perfs[1], "_approximate_time", ",",
           perfs[1], "_real_time", ",">> \o PerfColumns(Tail(perfs))

\* the first line of time-spent.csv
CsvHeader == <<"username", ",">> \o PerfColumns(Perfs)

\* the line of one player
CsvRow(username, time_spents) ==
    username \o <<",">> \o TimeSpents_to_csv(time_spents)

\* the orders in which into_iter of the hash map can give its entries
IterOrders(table) ==
    {o \in [1..Cardinality(DOMAIN table) -> DOMAIN table] :
        \A i, j \in DOMAIN o : o[i] = o[j] => i = j}

\* the lines of time-spent.csv for the table, its entries given in the order o
CsvFile(table, o) ==
    <<CsvHeader>> \o [i \in 1..Len(o) |-> CsvRow(o[i], table[o[i]])]

---------------------------------------------------------------------------
(* Game *)

ClockCapacity == 2

Game_default ==
    [players |-> Players_default, plies |-> 0, link |-> <<>>,
     first_two_clocks |-> <<>>, last_two_comments |-> <<>>,
     tc |-> Tc_default]

RECURSIVE Sum(_)
Sum(s) == IF s = <<>> THEN 0 ELSE s[1] + Sum(Tail(s))

\* a window that overwrites its newest slot instead of evicting the oldest
push_last_no_shift(last_two_comments, comment) ==
    IF Len(last_two_comments) < 2
    THEN Append(last_two_comments, comment)
    ELSE <<last_two_comments[1], comment>>

\* ArrayVec::try_push, and on a full window: [0] = pop(), then push
push_last(last_two_comments, comment) ==
    IF Len(last_two_comments) < ClockCapacity
    THEN Append(last_two_comments, comment)
    ELSE Append(<<last_two_comments[Len(last_two_comments)]>>, comment)

\* None is the panic of the unwrap_or_else
acc_comment(g, comment) ==
    LET d == comment_to_duration(comment)
    IN  IF Len(g.first_two_clocks) < ClockCapacity /\ ~IsSome(d) THEN None
        ELSE Some([g EXCEPT
                 !.first_two_clocks =
                     IF Len(@) < ClockCapacity THEN Append(@, Unwrap(d)) ELSE @,
                 !.last_two_comments = push_last(@, comment)])

\* Duration::saturating_sub in the place of checked_sub
checked_sub_saturating(a, b) == IF a >= b THEN Some(a - b) ELSE Some(0)

\* Duration::checked_sub
checked_sub(a, b) == IF a >= b THEN Some(a - b) ELSE None

\* the increment credit left out of the sum
game_duration_no_credit(g) ==
    LET last == [i \in 1..Len(g.last_two_comments) |->
                    comment_to_duration(g.last_two_comments[i])]
    IN  IF \E i \in 1..Len(last) : ~IsSome(last[i]) THEN None
        ELSE Some([players |-> g.players,
                   duration |->
                       checked_sub(Sum(g.first_two_clocks),
                                   Sum([i \in 1..Len(last) |-> Unwrap(last[i])]))])

\* None is the panic on a comment of the window that is no clock; otherwise
\* the pair (players, Option<Duration>)
game_duration(g) ==
    LET last == [i \in 1..Len(g.last_two_comments) |->
                    comment_to_duration(g.last_two_comments[i])]
    IN  IF \E i \in 1..Len(last) : ~IsSome(last[i]) THEN None
        ELSE Some([players |-> g.players,
                   duration |->
                       checked_sub(Sum(g.first_two_clocks)
                                   + g.plies * g.tc.increment,
                                   Sum([i \in 1..Len(last) |-> Unwrap(last[i])]))])

---------------------------------------------------------------------------
(* The input alphabets of the event stream.  The stream of games (Spec)     *)
(* reads two clocks and a comment without clock, one username (a game that *)
(* lacks a name header keeps the empty one, the second identity), two time  *)
(* controls of different buckets and the values that leave the identity     *)
(* time control or do not parse.  Its ratings are 0 and its games carry no  *)
(* Site header: the rating sum and the link, which only panic messages      *)
(* print, are read by no run of Spec.  The one-game runs (SpecGame) add a   *)
(* third clock and a time control with an increment.                        *)

Clk1 == <<"[", "%", "c", "l", "k", " ", "0", ":", "0", "0", ":", "0", "1", "]">>

Clk2 == <<"[", "%", "c", "l", "k", " ", "0", ":", "0", "0", ":", "0", "2", "]">>

NoClk == <<"e", "v", "a", "l">>

Clk60 == <<"[", "%", "c", "l", "k", " ", "0", ":", "0", "1", ":", "0", "0", "]">>

CommentValues == {Clk1, Clk2, NoClk}

\* a game without a name header keeps the empty username, so that the stream
\* has two identities: "a" and the empty one
NameValues == {<<"a">>, <<InvalidByte>>}

RatingValues == {<<"0">>, <<"?">>}

Tc15 == <<"1", "5", "+", "0">>

Tc180 == <<"1", "8", "0", "+", "0">>

Tc60i2 == <<"6", "0", "+", "2">>

TcValues == {<<"-">>, <<"0", "+", "0">>, Tc15, Tc180, <<"6", "0">>}

HeaderValues(key) ==
    CASE key \in {"White", "Black"} -> NameValues
      [] key \in {"WhiteElo", "BlackElo"} -> RatingValues
      [] OTHER -> TcValues

HeaderKeys == {"White", "Black", "WhiteElo", "BlackElo", "TimeControl"}

MaxGames == 2

MaxPlies == 4

\* the comments, time controls and number of comments of the one-game runs
GameComments == {Clk1, Clk2, Clk60, NoClk}

GameTcs == {Tc15, Tc60i2}

MaxComments == 5

\* the time controls of the classifier runs: base 0..MaxBase, increment 0..MaxIncrement
MaxBase == 1500

MaxIncrement == 1

---------------------------------------------------------------------------
(* The Visitor callbacks *)

ProgressEvery == 10000

ProgressAt == 9999

\* Visitor::header on the game being read; None is a panic
header(g, key, value) ==
    LET v == decode_utf8(value)
    IN  IF key \in {"White", "Black"}
        THEN IF ~IsSome(v) THEN None
             ELSE Some([g EXCEPT !.players = add_name(@, key, Unwrap(v))])
        ELSE IF key \in {"WhiteElo", "BlackElo"}
        THEN IF ~IsSome(v) THEN None
             ELSE LET ps == add_rating(g.players, key, Unwrap(v))
                  IN  IF ~IsSome(ps) THEN None
                      ELSE Some([g EXCEPT !.players = Unwrap(ps)])
        ELSE IF key = "TimeControl"
        THEN IF ~IsSome(v) THEN None
             ELSE IF Unwrap(v) # <<"-">>
             THEN LET tc == tc_to_tuple(Unwrap(v))
                  IN  IF ~IsSome(tc) THEN None
                      ELSE Some([g EXCEPT !.tc = Unwrap(tc)])
             ELSE Some(g)
        ELSE IF key = "Site"
        THEN IF ~IsSome(v) THEN None
             ELSE Some([g EXCEPT !.link = Unwrap(v)])
        ELSE Some(g)

\* no game is skipped
end_headers_never(g) == FALSE

\* a test of the increment alone
end_headers_increment_only(g) == g.tc.increment = 0

\* the Skip that end_headers returns
end_headers(g) == g.tc = Tc_default

\* Skip(false): the reader goes into the variation
begin_variation_descend == FALSE

\* the Skip that begin_variation returns
begin_variation == TRUE

\* a copy taken of the game, which is left as it was
mem_take_clone(g) == g

\* what mem::take leaves in self.game at the start of end_game
mem_take(g) == Game_default

MinPlies == 4

\* an entry that is started afresh instead of taken out of the table
record_fresh(table, username, rating, exact_duration, avg_time) ==
    LET added == TimeSpents_add_game(TimeSpents_default, exact_duration,
                                     avg_time, rating)
    IN  [u \in (DOMAIN table) \cup {username} |->
            IF u = username THEN added ELSE table[u]]

\* a table that keeps the entry of the last player only
record_evicting(table, username, rating, exact_duration, avg_time) ==
    LET time_spents == IF username \in DOMAIN table
                       THEN table[username] ELSE TimeSpents_default
        added == TimeSpents_add_game(time_spents, exact_duration, avg_time, rating)
    IN  [u \in {username} |-> added]

\* one turn of the loop of end_game over players.into_iter()
record(table, username, rating, exact_duration, avg_time) ==
    LET time_spents == IF username \in DOMAIN table
                       THEN table[username] ELSE TimeSpents_default
        added == TimeSpents_add_game(time_spents, exact_duration, avg_time, rating)
    IN  [u \in (DOMAIN table) \cup {username} |->
            IF u = username THEN added ELSE table[u]]

\* a game between one username and itself credited once
end_game_once_per_name(table, finished_game, d) ==
    LET plies == finished_game.plies
        avg_time == average_time(finished_game.tc)
        ps == Players_into_iter(d.players)
    IN  IF plies >= MinPlies /\ IsSome(d.duration)
        THEN IF ps[1][1] = ps[2][1]
             THEN record(table, ps[1][1], ps[1][2], Unwrap(d.duration), avg_time)
             ELSE record(record(table, ps[1][1], ps[1][2],
                                Unwrap(d.duration), avg_time),
                         ps[2][1], ps[2][2], Unwrap(d.duration), avg_time)
        ELSE table

\* a duration that could not be reconstructed counted as zero seconds
end_game_zero_duration(table, finished_game, d) ==
    LET plies == finished_game.plies
        avg_time == average_time(finished_game.tc)
        ps == Players_into_iter(d.players)
        exact_duration == IF IsSome(d.duration) THEN Unwrap(d.duration) ELSE 0
    IN  IF plies >= MinPlies
        THEN record(record(table, ps[1][1], ps[1][2], exact_duration, avg_time),
                    ps[2][1], ps[2][2], exact_duration, avg_time)
        ELSE table

\* no test of the number of plies
end_game_any_plies(table, finished_game, d) ==
    LET avg_time == average_time(finished_game.tc)
        ps == Players_into_iter(d.players)
    IN  IF IsSome(d.duration)
        THEN record(record(table, ps[1][1], ps[1][2], Unwrap(d.duration), avg_time),
                    ps[2][1], ps[2][2], Unwrap(d.duration), avg_time)
        ELSE table

\* the table after end_game of finished_game, whose game_duration is d
end_game(table, finished_game, d) ==
    LET plies == finished_game.plies
        avg_time == average_time(finished_game.tc)
        ps == Players_into_iter(d.players)
    IN  IF plies >= MinPlies /\ IsSome(d.duration)
        THEN record(record(table, ps[1][1], ps[1][2], Unwrap(d.duration), avg_time),
                    ps[2][1], ps[2][2], Unwrap(d.duration), avg_time)
        ELSE table

---------------------------------------------------------------------------
(* The history the claims are stated on: which comments of the alphabets    *)
(* show a clock, which games qualify, and who played in them                *)

HasClock(c) == c \in {Clk1, Clk2, Clk60}

ClockSecs(c) == CASE c = Clk1 -> 1 [] c = Clk2 -> 2 [] c = Clk60 -> 60

AllClocks(s) == \A i \in 1..Len(s) : HasClock(s[i])

ClockSum(s) == Sum([i \in 1..Len(s) |-> ClockSecs(s[i])])

\* what the game has to spend: its first samples and its increment credit
Credit(g) == Sum(g.first_two_clocks) + g.plies * g.tc.increment

Buckets == {"ultrabullet", "bullet", "blitz", "rapid", "classical"}

BucketOf(avg) ==
    IF avg <= 29 THEN "ultrabullet"
    ELSE IF avg \in 30..179 THEN "bullet"
    ELSE IF avg \in 180..479 THEN "blitz"
    ELSE IF avg \in 480..1499 THEN "rapid"
    ELSE "classical"

AvgOf(g) == g.tc.base + 40 * g.tc.increment

\* ply >= 4, duration reconstructed, time control present
Qualifying(g) ==
    /\ g.plies >= 4
    /\ AllClocks(g.last_two_comments)
    /\ Credit(g) >= ClockSum(g.last_two_comments)
    /\ ~(g.tc.base = 0 /\ g.tc.increment = 0)

Participants(g) == {g.players.white.username, g.players.black.username}

NoGames == [b \in Buckets |-> 0]

\* the history after the game g has ended
Played(history, g) ==
    IF Qualifying(g)
    THEN [u \in (DOMAIN history) \cup Participants(g) |->
             LET before == IF u \in DOMAIN history THEN history[u] ELSE NoGames
             IN  IF u \in Participants(g)
                 THEN [before EXCEPT ![BucketOf(AvgOf(g))] = @ + 1]
                 ELSE before]
    ELSE history


Init ==
    /\ games = 0
    /\ users = <<>>
    /\ game = Game_default
    /\ pb = 0
    /\ pc = "idle"
    /\ finished = None
    /\ appeared = <<>>
    /\ inp = <<>>
    /\ out = None

BeginGame ==
    /\ pc = "idle"
    /\ games < MaxGames
    /\ games' = games + 1
    /\ pb' = IF games' % ProgressEvery = ProgressAt THEN pb + ProgressEvery ELSE pb
    /\ pc' = "headers"
    /\ finished' = None
    /\ UNCHANGED <<users, game, appeared, inp, out>>

Header ==
    /\ pc = "headers"
    /\ \E key \in HeaderKeys : \E value \in HeaderValues(key) :
          LET g == header(game, key, value)
          IN  IF IsSome(g)
              THEN game' = Unwrap(g) /\ pc' = pc
              ELSE game' = game /\ pc' = "panicked"
    /\ UNCHANGED <<games, users, pb, finished, appeared, inp, out>>

EndHeaders ==
    /\ pc = "headers"
    /\ pc' = IF end_headers(game) THEN "skipped" ELSE "body"
    /\ UNCHANGED <<games, users, game, pb, finished, appeared, inp, out>>

San ==
    /\ pc = "body"
    /\ game.plies < MaxPlies
    /\ game' = [game EXCEPT !.plies = @ + 1]
    /\ UNCHANGED <<games, users, pb, pc, finished, appeared, inp, out>>

Comment ==
    /\ pc = "body"
    /\ \E c \in CommentValues :
          LET g == acc_comment(game, from_utf8_lossy(c))
          IN  IF IsSome(g)
              THEN game' = Unwrap(g) /\ pc' = pc
              ELSE game' = game /\ pc' = "panicked"
    /\ UNCHANGED <<games, users, pb, finished, appeared, inp, out>>

\* the reader meets a variation: on Skip(true) it passes over the subtree
\* without a callback, otherwise it would deliver the moves nested in it
BeginVariation ==
    /\ pc = "body"
    /\ IF begin_variation
       THEN game' = game
       ELSE /\ game.plies < MaxPlies
            /\ game' = [game EXCEPT !.plies = @ + 1]
    /\ UNCHANGED <<games, users, pb, pc, finished, appeared, inp, out>>

EndGame ==
    /\ pc \in {"body", "skipped"}
    /\ LET d == game_duration(game)
       IN  IF IsSome(d)
           THEN /\ users' = end_game(users, game, Unwrap(d))
                /\ game' = mem_take(game)
                /\ appeared' = Played(appeared, game)
                /\ finished' = Some([plies |-> game.plies,
                                      avg_time |-> average_time(game.tc),
                                      players |-> Unwrap(d).players,
                                      exact_duration_opt |-> Unwrap(d).duration])
                /\ pc' = "idle"
           ELSE /\ pc' = "panicked"
                /\ UNCHANGED <<users, game, finished, appeared>>
    /\ UNCHANGED <<games, pb, inp, out>>

Next ==
    \/ BeginGame
    \/ Header
    \/ EndHeaders
    \/ San
    \/ Comment
    \/ BeginVariation
    \/ EndGame

Spec == Init /\ [][Next]_vars

---------------------------------------------------------------------------
(* One game, from the end of its headers, with the comments it is given     *)
(* kept in inp                                                              *)

InitGame ==
    /\ games = 1
    /\ users = <<>>
    /\ \E tc \in GameTcs : \E plies \in 0..MaxPlies :
          game = [Unwrap(header(Game_default, "TimeControl", tc))
                      EXCEPT !.plies = plies]
    /\ pb = 0
    /\ pc = "body"
    /\ finished = None
    /\ appeared = <<>>
    /\ inp = <<>>
    /\ out = None

CommentLogged ==
    /\ pc = "body"
    /\ Len(inp) < MaxComments
    /\ \E c \in GameComments :
          LET g == acc_comment(game, from_utf8_lossy(c))
          IN  /\ inp' = Append(inp, c)
              /\ IF IsSome(g)
                 THEN game' = Unwrap(g) /\ pc' = pc
                 ELSE game' = game /\ pc' = "panicked"
    /\ UNCHANGED <<games, users, pb, finished, appeared, out>>

NextGame ==
    \/ CommentLogged
    \/ EndGame

SpecGame == InitGame /\ [][NextGame]_vars

---------------------------------------------------------------------------
(* The classifier on its own: TimeSpents::add_game of one game on an empty  *)
(* TimeSpents, for every time control of the bounds                         *)

InitClassify ==
    /\ games = 1
    /\ users = <<>>
    /\ \E base \in 0..MaxBase : \E increment \in 0..MaxIncrement :
          game = [Game_default EXCEPT !.tc = Tc_new(base, increment)]
    /\ pb = 0
    /\ pc = "headers"
    /\ finished = None
    /\ appeared = <<>>
    /\ inp = <<>>
    /\ out = None

Classify ==
    /\ pc = "headers"
    /\ out = None
    /\ out' = Some(TimeSpents_add_game(TimeSpents_default, 0,
                                        average_time(game.tc), 0))
    /\ UNCHANGED <<games, users, game, pb, pc, finished, appeared, inp>>

NextClassify == Classify

SpecClassify == InitClassify /\ [][NextClassify]_vars

---------------------------------------------------------------------------
(* The claims                                                               *)

Min(a, b) == IF a <= b THEN a ELSE b

\* a step in which end_game returns
EndGameStep == pc \in {"body", "skipped"} /\ pc' = "idle"

---------------------------------------------------------------------------
(* C1: game_duration of a completed game is sum(first_samples) + ply_count  *)
(* * increment - sum(recent_samples) when that is not negative, and None,   *)
(* never zero, when the recent samples exceed the first samples plus the    *)
(* increment credit.  Checked on every end_game of SpecGame.                *)
C1_GameDuration ==
    [][EndGameStep =>
          LET recent == ClockSum(game.last_two_comments)
          IN  /\ IsSome(finished')
              /\ Unwrap(finished').exact_duration_opt =
                    IF recent > Credit(game) THEN None
                    ELSE Some(Credit(game) - recent)]_vars

\* first = [60, 60], recent = [60, 60], increment = 2, ply_count = 2: 4 seconds
C1_Witness ==
    /\ pc = "idle"
    /\ inp = <<Clk60, Clk60>>
    /\ IsSome(finished)
    /\ Unwrap(finished).plies = 2
    /\ Unwrap(finished).avg_time = 140
    /\ Unwrap(finished).exact_duration_opt = Some(4)

(* C2: after n comments that all show a clock, first_samples is the first   *)
(* min(n, 2) of them and recent_samples the last min(n, 2) of them, in the  *)
(* order they came; neither collection ever holds more than 2.              *)
C2_Window ==
    /\ Len(game.first_two_clocks) <= 2
    /\ Len(game.last_two_comments) <= 2
    /\ (pc = "body" /\ AllClocks(inp)) =>
          LET n == Len(inp)
              k == Min(n, 2)
          IN  /\ game.first_two_clocks = [i \in 1..k |-> ClockSecs(inp[i])]
              /\ game.last_two_comments = [i \in 1..k |-> inp[n - k + i]]

C2_Witness ==
    /\ pc = "body"
    /\ inp = <<Clk1, Clk2, Clk60>>
    /\ game.first_two_clocks = <<1, 2>>
    /\ game.last_two_comments = <<Clk2, Clk60>>

(* C9: a game in which some delivered comment shows no clock, wherever the  *)
(* comment stands in the game, adds nothing to the aggregation table.       *)
C9_NoClockNoContribution ==
    [][(EndGameStep /\ ~AllClocks(inp)) => users' = users]_vars

(* C18: for a game with at most two comments, all showing a clock,          *)
(* first_samples and recent_samples hold the same readings, so              *)
(* game_duration is never None and is exactly ply_count * increment,        *)
(* whatever the readings are.                                               *)
C18_ShortGame ==
    [][(EndGameStep /\ Len(inp) <= 2 /\ AllClocks(inp)) =>
          /\ game.first_two_clocks = [i \in 1..Len(inp) |-> ClockSecs(inp[i])]
          /\ game.last_two_comments = inp
          /\ Unwrap(finished').exact_duration_opt =
                Some(game.plies * game.tc.increment)]_vars

\* readings of 1 s and 60 s, 4 plies at 60+2: 8 seconds
C18_Witness ==
    /\ pc = "idle"
    /\ inp = <<Clk1, Clk60>>
    /\ IsSome(finished)
    /\ Unwrap(finished).plies = 4
    /\ Unwrap(finished).avg_time = 140
    /\ Unwrap(finished).exact_duration_opt = Some(8)

---------------------------------------------------------------------------
(* The claims on the stream of games                                        *)

Entry(table, u) == IF u \in DOMAIN table THEN table[u] ELSE TimeSpents_default

\* how many of the two sides of g the player u is
Slots(g, u) ==
    (IF g.players.white.username = u THEN 1 ELSE 0)
    + (IF g.players.black.username = u THEN 1 ELSE 0)

\* a step in which begin_game returns
BeginGameStep == pc = "idle" /\ pc' = "headers"

\* the recent samples exceed the first samples plus the increment credit
Underflow(g) ==
    /\ AllClocks(g.last_two_comments)
    /\ ClockSum(g.last_two_comments) > Credit(g)

(* C3: after any stream of games, game_count of every player and bucket is  *)
(* the number of qualifying games (ply >= 4, duration reconstructed, time   *)
(* control present) of that bucket in which the player appeared.            *)
C3_GameCount ==
    \A u \in DOMAIN users \cup DOMAIN appeared : \A b \in Buckets :
        Entry(users, u)[b].nb_games =
            IF u \in DOMAIN appeared THEN appeared[u][b] ELSE 0

(* C4: end_game of a game whose recent samples exceed its first samples     *)
(* plus ply_count * increment leaves the whole table as it was, and the     *)
(* games counter has counted the game: begin_game raised it by one and      *)
(* end_game does not take that back.                                        *)
C4_UnderflowFrame ==
    [][/\ BeginGameStep => games' = games + 1
       /\ (EndGameStep /\ Underflow(game)) =>
             (users' = users /\ games' = games /\ games >= 1)]_vars

C4_Witness ==
    /\ pc = "idle"
    /\ games = 2
    /\ users # <<>>
    /\ IsSome(finished)
    /\ Unwrap(finished).plies >= 4
    /\ Unwrap(finished).exact_duration_opt = None

(* C5: end_game of a game of fewer than 4 plies never changes the table,    *)
(* even when its duration is reconstructed; end_game of a game of at least  *)
(* 4 plies with a reconstructed duration always changes it.                 *)
C5_MinPlies ==
    [][EndGameStep =>
          /\ game.plies < 4 => users' = users
          /\ (game.plies >= 4 /\ ~Underflow(game)) => users' # users]_vars

\* a game of 3 plies whose duration was reconstructed has ended
C5_Witness ==
    /\ pc = "idle"
    /\ users = <<>>
    /\ IsSome(finished)
    /\ Unwrap(finished).plies = 3
    /\ IsSome(Unwrap(finished).exact_duration_opt)

(* C6: end_headers returns skip exactly when time_control is the identity   *)
(* value (base = 0, increment = 0) after the headers, and a game skipped    *)
(* this way adds nothing to the table.                                      *)
C6_SkipWithoutTc ==
    [][/\ (pc = "headers" /\ pc' \in {"body", "skipped"}) =>
             (pc' = "skipped" <=> (game.tc.base = 0 /\ game.tc.increment = 0))
       /\ (pc = "skipped" /\ pc' = "idle") => users' = users]_vars

\* a game without time control has been skipped and has ended, after a game
\* that was recorded
C6_Witness ==
    /\ pc = "idle"
    /\ games = 2
    /\ users # <<>>
    /\ IsSome(finished)
    /\ Unwrap(finished).avg_time = 0
    /\ Unwrap(finished).plies = 0

(* C8: a malformed game (a comment without clock, a time control or a      *)
(* rating that does not parse, header bytes that are no text) never aborts  *)
(* the stream.                                                              *)
C8_NeverAborts == pc # "panicked"

(* C10: end_game of a qualifying game changes, for each of its two          *)
(* participants, only the bucket of the game's average_time: game_count    *)
(* + 1, approx_seconds_total + average_time, exact_seconds_total +          *)
(* exact_duration, on an entry that starts from zero when absent; every     *)
(* other bucket and every other player's entry stay as they were.           *)
C10_RecordFrame ==
    [][(EndGameStep /\ Qualifying(game)) =>
          LET avg == AvgOf(game)
              exact == Credit(game) - ClockSum(game.last_two_comments)
          IN  /\ DOMAIN users' = DOMAIN users \cup Participants(game)
              /\ \A u \in DOMAIN users' : \A b \in Buckets :
                    LET k == IF b = BucketOf(avg) THEN Slots(game, u) ELSE 0
                        old == Entry(users, u)[b]
                        new == users'[u][b]
                    IN  /\ new.nb_games = old.nb_games + k
                        /\ new.time_spent_approximate =
                              old.time_spent_approximate + k * avg
                        /\ new.time_spent_exact = old.time_spent_exact + k * exact]_vars

\* a qualifying game has ended that one player of the table did not play, and
\* a participant of which had games in another bucket
C10_Witness ==
    /\ pc = "idle"
    /\ IsSome(finished)
    /\ Unwrap(finished).plies >= 4
    /\ IsSome(Unwrap(finished).exact_duration_opt)
    /\ Unwrap(finished).exact_duration_opt # Some(0)
    /\ LET ps == {Unwrap(finished).players.white.username,
                  Unwrap(finished).players.black.username}
           b == BucketOf(Unwrap(finished).avg_time)
       IN  /\ \E u \in DOMAIN users : u \notin ps /\ users[u] # TimeSpents_default
           /\ \E u \in ps : \E o \in Buckets \ {b} : users[u][o].nb_games > 0

---------------------------------------------------------------------------
(* The claim on the classifier                                             *)

\* the buckets of the eight averages at the bounds
AtBounds ==
    [avg \in {29, 30, 179, 180, 479, 480, 1499, 1500} |->
        CASE avg <= 29 -> "ultrabullet"
          [] avg \in {30, 179} -> "bullet"
          [] avg \in {180, 479} -> "blitz"
          [] avg \in {480, 1499} -> "rapid"
          [] OTHER -> "classical"]

(* C7: for every average_time = base + 40 * increment the classifier        *)
(* selects exactly one bucket, with inclusive upper bounds: <= 29           *)
(* ultrabullet, 30..179 bullet, 180..479 blitz, 480..1499 rapid, >= 1500    *)
(* classical.  Checked on every time control of SpecClassify.               *)
C7_Classifier ==
    IsSome(out) =>
        /\ \A b \in Buckets :
              Unwrap(out)[b].nb_games = IF b = BucketOf(AvgOf(game)) THEN 1 ELSE 0
        /\ AvgOf(game) \in DOMAIN AtBounds =>
              Unwrap(out)[AtBounds[AvgOf(game)]].nb_games = 1

\* 1499 = 1459 + 40 * 1 has gone to rapid
C7_Witness ==
    /\ IsSome(out)
    /\ AvgOf(game) = 1499
    /\ game.tc.increment = 1
    /\ Unwrap(out).rapid.nb_games = 1
    /\ Unwrap(out).classical.nb_games = 0

---------------------------------------------------------------------------
(* One game between named and rated players, from the end of its headers,   *)
(* and the file written when the stream has ended                           *)

RECURSIVE headers(_, _)
headers(g, hs) ==
    IF hs = <<>> THEN g
    ELSE headers(Unwrap(header(g, hs[1][1], hs[1][2])), Tail(hs))

ExportNames == {<<"a">>, <<"b">>}

ExportHeaders(black, tc) ==
    << <<"White", <<"a">> >>, <<"Black", black>>,
       <<"WhiteElo", <<"9">> >>, <<"BlackElo", <<"4">> >>,
       <<"TimeControl", tc>> >>

InitExport ==
    /\ games = 1
    /\ users = <<>>
    /\ \E black \in ExportNames : \E tc \in GameTcs : \E plies \in 0..MaxPlies :
          game = [headers(Game_default, ExportHeaders(black, tc))
                      EXCEPT !.plies = plies]
    /\ pb = 0
    /\ pc = "body"
    /\ finished = None
    /\ appeared = <<>>
    /\ inp = <<>>
    /\ out = None

\* main, after read_all has returned
Export ==
    /\ pc = "idle"
    /\ \E o \in IterOrders(users) : out' = Some(CsvFile(users, o))
    /\ pc' = "exported"
    /\ UNCHANGED <<games, users, game, pb, finished, appeared, inp>>

NextExport ==
    \/ CommentLogged
    \/ EndGame
    \/ Export

SpecExport == InitExport /\ [][NextExport]_vars

---------------------------------------------------------------------------
(* comment_to_duration on its own.  The comment handed to it is put         *)
(* together from nine pieces kept in inp: text before, the tag, the hours,  *)
(* a colon, the minutes, a colon, the seconds, the closing bracket and text *)
(* after; each piece is also drawn missing or malformed.                    *)

\* an earlier, empty %clk command
StrayClk == <<"[", "%", "c", "l", "k", " ", "]", " ">>

TextBefore == {<<>>, <<" ">>, <<"1", ":">>, StrayClk}

TagTexts == {ClkTag, <<"[", "%", "c", "l", "k">>, <<>>}

HourTexts == {<<"0">>, <<"1">>, <<"1", "0">>, <<"x">>, <<>>}

MinuteTexts == {<<"0", "0">>, <<"0", "3">>, <<"5", "9">>, <<"x", "0">>}

SecondTexts == {<<"0", "0">>, <<"0", "1">>, <<"5", "9">>, <<>>}

ColonTexts == {<<":">>, <<>>}

ClosingTexts == {<<"]">>, <<>>}

TextAfter == {<<>>, <<" ">>, <<" ", "]">>}

CommentPieces ==
    [pre : TextBefore, tag : TagTexts, h : HourTexts, colon1 : ColonTexts,
     m : MinuteTexts, colon2 : ColonTexts, s : SecondTexts,
     closing : ClosingTexts, post : TextAfter]

CommentOf(p) ==
    p.pre \o p.tag \o p.h \o p.colon1 \o p.m \o p.colon2 \o p.s
    \o p.closing \o p.post

InitComment ==
    /\ games = 1
    /\ users = <<>>
    /\ game = Game_default
    /\ pb = 0
    /\ pc = "body"
    /\ finished = None
    /\ appeared = <<>>
    /\ inp \in CommentPieces
    /\ out = None

ReadClock ==
    /\ pc = "body"
    /\ out = None
    /\ out' = Some(comment_to_duration(CommentOf(inp)))
    /\ UNCHANGED <<games, users, game, pb, pc, finished, appeared, inp>>

NextComment == ReadClock

SpecComment == InitComment /\ [][NextComment]_vars

---------------------------------------------------------------------------
(* The claim on comment_to_duration                                         *)

\* the numbers the pieces of the alphabets show
NumberShown ==
    (<<"0">> :> 0) @@ (<<"1">> :> 1) @@ (<<"1", "0">> :> 10)
    @@ (<<"0", "0">> :> 0) @@ (<<"0", "1">> :> 1) @@ (<<"0", "3">> :> 3)
    @@ (<<"5", "9">> :> 59)

\* the pieces make a clock annotation [%clk H:MM:SS]
IsAnnotation(p) ==
    /\ p.tag = <<"[", "%", "c", "l", "k", " ">>
    /\ p.colon1 = <<":">> /\ p.colon2 = <<":">> /\ p.closing = <<"]">>
    /\ p.h \in DOMAIN NumberShown
    /\ p.m \in DOMAIN NumberShown
    /\ p.s \in DOMAIN NumberShown

SecondsShown(p) ==
    NumberShown[p.h] * 3600 + NumberShown[p.m] * 60 + NumberShown[p.s]

(* C12: comment_to_duration returns Some(H*3600 + M*60 + S) for every       *)
(* string that contains a clock annotation [%clk H:MM:SS], whatever text    *)
(* stands before the annotation and after its closing bracket, and None     *)
(* when the pattern is absent or a numeric component is no number.          *)
C12_ClockAnywhere ==
    IsSome(out) =>
        Unwrap(out) = IF IsAnnotation(inp) THEN Some(SecondsShown(inp)) ELSE None

---------------------------------------------------------------------------
(* tc_to_tuple on its own.  The string handed to it is put together from    *)
(* three pieces kept in inp: the text of the base, a plus sign or nothing,  *)
(* and the text of the increment.                                           *)

BaseTexts ==
    {<<"6", "0">>, <<"0">>, <<"1", "5">>, <<>>, <<"x">>, <<"-">>, <<"-", "1">>}

PlusTexts == {<<"+">>, <<>>}

IncrementTexts ==
    {<<"3">>, <<"0">>, <<"1", "0">>, <<>>, <<"x">>, <<"+", "3">>, <<"-", "1">>}

TcPieces == [base : BaseTexts, plus : PlusTexts, increment : IncrementTexts]

TcOf(p) == p.base \o p.plus \o p.increment

InitTc ==
    /\ games = 1
    /\ users = <<>>
    /\ game = Game_default
    /\ pb = 0
    /\ pc = "headers"
    /\ finished = None
    /\ appeared = <<>>
    /\ inp \in TcPieces
    /\ out = None

ReadTc ==
    /\ pc = "headers"
    /\ out = None
    /\ out' = Some(tc_to_tuple(TcOf(inp)))
    /\ UNCHANGED <<games, users, game, pb, pc, finished, appeared, inp>>

NextTc == ReadTc

SpecTc == InitTc /\ [][NextTc]_vars

---------------------------------------------------------------------------
(* The claim on tc_to_tuple                                                 *)

\* the non-negative integers among the texts of the alphabets
TcNumbers ==
    (<<"6", "0">> :> 60) @@ (<<"0">> :> 0) @@ (<<"1", "5">> :> 15)
    @@ (<<"3">> :> 3) @@ (<<"1", "0">> :> 10)

\* the ways to read the text as "<base>+<increment>"
TcReadings(text) ==
    {r \in (DOMAIN TcNumbers) \X (DOMAIN TcNumbers) : text = r[1] \o <<"+">> \o r[2]}

(* C13: tc_to_tuple returns Some(TimeControl{base, increment}) for every    *)
(* string "<base>+<increment>" whose two parts are non-negative integers,   *)
(* and None for every other string, "-" included.                           *)
C13_TcOrNone ==
    IsSome(out) =>
        LET rs == TcReadings(TcOf(inp))
        IN  IF rs = {} THEN Unwrap(out) = None
            ELSE \E r \in rs :
                    Unwrap(out) = Some([base |-> TcNumbers[r[1]],
                                        increment |-> TcNumbers[r[2]]])

---------------------------------------------------------------------------
(* The body of one game, with every event the reader meets kept in inp:     *)
(* top-level moves, comments and variations                                 *)

SanEvent == <<"san">>

VariationEvent == <<"(">>

InitMoves ==
    /\ games = 1
    /\ users = <<>>
    /\ \E tc \in GameTcs :
          game = Unwrap(header(Game_default, "TimeControl", tc))
    /\ pb = 0
    /\ pc = "body"
    /\ finished = None
    /\ appeared = <<>>
    /\ inp = <<>>
    /\ out = None

SanLogged ==
    /\ pc = "body"
    /\ Len(inp) < MaxComments
    /\ game.plies < MaxPlies
    /\ game' = [game EXCEPT !.plies = @ + 1]
    /\ inp' = Append(inp, SanEvent)
    /\ UNCHANGED <<games, users, pb, pc, finished, appeared, out>>

\* a variation with one move in it: on Skip(true) the reader passes over it,
\* otherwise it would deliver the move
VariationLogged ==
    /\ pc = "body"
    /\ Len(inp) < MaxComments
    /\ IF begin_variation
       THEN game' = game
       ELSE /\ game.plies < MaxPlies
            /\ game' = [game EXCEPT !.plies = @ + 1]
    /\ inp' = Append(inp, VariationEvent)
    /\ UNCHANGED <<games, users, pb, pc, finished, appeared, out>>

NextMoves ==
    \/ SanLogged
    \/ CommentLogged
    \/ VariationLogged
    \/ EndGame

SpecMoves == InitMoves /\ [][NextMoves]_vars

---------------------------------------------------------------------------
(* The claim on the moves of a game                                         *)

\* how many of the events are top-level moves
RECURSIVE TopLevelMoves(_)
TopLevelMoves(events) ==
    IF events = <<>> THEN 0
    ELSE (IF events[1] = <<"san">> THEN 1 ELSE 0) + TopLevelMoves(Tail(events))

(* C15: begin_variation always returns skip, and at end_game ply_count is   *)
(* the number of top-level move events of the game: a move nested in a      *)
(* variation is never counted.                                              *)
C15_TopLevelPlies ==
    [][/\ begin_variation
       /\ EndGameStep =>
             /\ game.plies = TopLevelMoves(inp)
             /\ Unwrap(finished').plies = TopLevelMoves(inp)]_vars

\* a game of two moves, a variation between them, has ended with 2 plies
C15_Witness ==
    /\ pc = "idle"
    /\ inp = <<SanEvent, VariationEvent, SanEvent>>
    /\ IsSome(finished)
    /\ Unwrap(finished).plies = 2

---------------------------------------------------------------------------
(* One game from its begin_game, with the headers it is given kept in inp   *)
(* as pairs of key and value, in the order they are emitted                 *)

MaxHeaders == 3

OrderValues(key) ==
    CASE key \in {"White", "Black"} -> {<<"a">>, <<"b">>}
      [] key \in {"WhiteElo", "BlackElo"} -> {<<"9">>}
      [] OTHER -> {Tc15, <<"-">>}

InitHeaders ==
    /\ games = 1
    /\ users = <<>>
    /\ game = Game_default
    /\ pb = 0
    /\ pc = "headers"
    /\ finished = None
    /\ appeared = <<>>
    /\ inp = <<>>
    /\ out = None

HeaderLogged ==
    /\ pc = "headers"
    /\ Len(inp) < MaxHeaders
    /\ \E key \in HeaderKeys : \E value \in OrderValues(key) :
          LET g == header(game, key, value)
          IN  /\ inp' = Append(inp, <<key, value>>)
              /\ IF IsSome(g)
                 THEN game' = Unwrap(g) /\ pc' = pc
                 ELSE game' = game /\ pc' = "panicked"
    /\ UNCHANGED <<games, users, pb, finished, appeared, out>>

NextHeaders ==
    \/ HeaderLogged
    \/ EndHeaders
    \/ San
    \/ EndGame

SpecHeaders == InitHeaders /\ [][NextHeaders]_vars

---------------------------------------------------------------------------
(* The claim on the order of the participants                               *)

\* the places of the headers of the key among the emitted headers
Places(log, key) == {i \in 1..Len(log) : log[i][1] = key}

\* the value of the last header of the key, the empty text when there is none
LastValue(log, key) ==
    IF Places(log, key) = {} THEN <<>>
    ELSE log[CHOOSE i \in Places(log, key) :
                 \A j \in Places(log, key) : j <= i][2]

\* one header of each identity, the Black one emitted first
BlackBeforeWhite(log) ==
    /\ Cardinality(Places(log, "White")) = 1
    /\ Cardinality(Places(log, "Black")) = 1
    /\ \E i \in Places(log, "Black") : \E j \in Places(log, "White") : i < j

\* the pair of identities that game_duration hands on and end_game loops over
PairOf(players) ==
    <<Players_into_iter(players)[1][1], Players_into_iter(players)[2][1]>>

(* C17: the two identities of a game are recorded in the order their        *)
(* headers were emitted: when the Black identity header arrives before the  *)
(* White one, the participants pair lists Black first.                      *)
C17_EmissionOrder ==
    (pc = "idle" /\ IsSome(finished) /\ BlackBeforeWhite(inp)) =>
        PairOf(Unwrap(finished).players) =
            <<LastValue(inp, "Black"), LastValue(inp, "White")>>

(* C17 as amended: the identities are recorded by the key of their header:  *)
(* the participants pair always lists the White identity first and the      *)
(* Black identity second, whichever header was emitted first.               *)
C17_WhiteFirst ==
    (pc = "idle" /\ IsSome(finished)) =>
        PairOf(Unwrap(finished).players) =
            <<LastValue(inp, "White"), LastValue(inp, "Black")>>

\* Black "b" was emitted before White "a": the pair is (a, b), and both are in
\* the table
C17_Witness ==
    /\ pc = "idle"
    /\ inp = << <<"Black", <<"b">> >>, <<"White", <<"a">> >>,
                <<"TimeControl", Tc15>> >>
    /\ IsSome(finished)
    /\ PairOf(Unwrap(finished).players) = << <<"a">>, <<"b">> >>
    /\ DOMAIN users = { <<"a">>, <<"b">> }

---------------------------------------------------------------------------
(* The claim on the export                                                  *)

\* the fields of a line: the text between its commas
RECURSIVE Fields(_)
Fields(line) ==
    LET sp == split_once(line, <<",">>)
    IN  IF IsSome(sp) THEN <<Unwrap(sp)[1]>> \o Fields(Unwrap(sp)[2])
        ELSE <<line>>

BucketOrder == <<"ultrabullet", "bullet", "blitz", "rapid", "classical">>

\* the three figures of a bucket, empty when the bucket has no game
Figures(ts) ==
    IF ts.nb_games = 0 THEN << <<>>, <<>>, <<>> >>
    ELSE <<fmt(ts.nb_games), fmt(ts.time_spent_approximate),
           fmt(ts.time_spent_exact)>>

RowFigures(tss) ==
    Figures(tss[BucketOrder[1]]) \o Figures(tss[BucketOrder[2]])
    \o Figures(tss[BucketOrder[3]]) \o Figures(tss[BucketOrder[4]])
    \o Figures(tss[BucketOrder[5]])

(* C11: every player row of the export carries, after the identity, for    *)
(* the five buckets in the order ultrabullet, bullet, blitz, rapid,         *)
(* classical exactly three figures (game count, approximate seconds, exact  *)
(* seconds): empty for a bucket without games, the three figures for a      *)
(* bucket with at least one game.  A closing comma, as the header line has  *)
(* one, is allowed.                                                         *)
C11_ExportFigures ==
    (pc = "exported") =>
        \A i \in 2..Len(Unwrap(out)) :
            LET row == Fields(Unwrap(out)[i])
                expected == <<row[1]>> \o RowFigures(users[row[1]])
            IN  row = expected \/ row = Append(expected, <<>>)

---------------------------------------------------------------------------
(* More claims on the stream of games                                       *)

\* the per-game state of a visitor that has read nothing of a game
Fresh(g) ==
    /\ g.players.white.username = <<>> /\ g.players.black.username = <<>>
    /\ g.players.white.rating = 0 /\ g.players.black.rating = 0
    /\ g.plies = 0
    /\ g.tc.base = 0 /\ g.tc.increment = 0
    /\ g.first_two_clocks = <<>>
    /\ g.last_two_comments = <<>>

(* C14: at every begin_game of a stream of games (begin_game, header*,      *)
(* end_headers, body, end_game) the per-game state (participants,           *)
(* ply_count, time_control, first_samples, recent_samples) is the fresh     *)
(* default, whether the game before it qualified or was skipped.            *)
C14_FreshAtBeginGame ==
    [][BeginGameStep => (Fresh(game) /\ Fresh(game'))]_vars

\* the second game begins after a game that was recorded
C14_Witness ==
    /\ pc = "headers"
    /\ games = 2
    /\ finished = None
    /\ Fresh(game)
    /\ users # <<>>

(* C16: the aggregation table only grows: an entry that exists is there    *)
(* after every later step, and none of its game_count,                      *)
(* approx_seconds_total and exact_seconds_total values ever decreases.      *)
C16_TableGrows ==
    [][\A u \in DOMAIN users :
          /\ u \in DOMAIN users'
          /\ \A b \in Buckets :
                /\ users'[u][b].nb_games >= users[u][b].nb_games
                /\ users'[u][b].time_spent_approximate
                      >= users[u][b].time_spent_approximate
                /\ users'[u][b].time_spent_exact >= users[u][b].time_spent_exact]_vars

\* a player of an earlier game has been credited a later game of another
\* bucket, next to a player who did not take part in it
C16_Witness ==
    /\ pc = "idle"
    /\ games = 2
    /\ Cardinality(DOMAIN users) = 2
    /\ \E u \in DOMAIN users :
          users[u].ultrabullet.nb_games > 0 /\ users[u].blitz.nb_games > 0

\* the least average_time of the buckets, and the greatest of those that
\* have one
LowerBound ==
    [b \in Buckets |->
        CASE b = "ultrabullet" -> 1 [] b = "bullet" -> 30 [] b = "blitz" -> 180
          [] b = "rapid" -> 480 [] b = "classical" -> 1500]

UpperBound ==
    [b \in Buckets \ {"classical"} |->
        CASE b = "ultrabullet" -> 29 [] b = "bullet" -> 179 [] b = "blitz" -> 479
          [] b = "rapid" -> 1499]

(* C19: in every reachable state, for every player and bucket,              *)
(* approx_seconds_total lies between lower_bound * game_count and           *)
(* upper_bound * game_count of the bucket (classical has no upper bound);   *)
(* a bucket with game_count > 0 has approx_seconds_total > 0.               *)
C19_ApproxRange ==
    \A u \in DOMAIN users : \A b \in Buckets :
        LET n == users[u][b].nb_games
            approx == users[u][b].time_spent_approximate
        IN  /\ approx >= LowerBound[b] * n
            /\ b \in DOMAIN UpperBound => approx <= UpperBound[b] * n
            /\ n > 0 => approx > 0

\* a player with games at 15+0 and at 180+0, a bucket holding two games
C19_Witness ==
    \E u \in DOMAIN users :
        /\ users[u].ultrabullet.nb_games = 2
        /\ users[u].ultrabullet.time_spent_approximate = 30
        /\ users[u].blitz.nb_games >= 1
        /\ users[u].blitz.time_spent_approximate = 180 * users[u].blitz.nb_games

\* the sum of the values of f over the set S
RECURSIVE SumOver(_, _)
SumOver(S, f) ==
    IF S = {} THEN 0
    ELSE LET x == CHOOSE y \in S : TRUE
         IN  f[x] + SumOver(S \ {x}, f)

TotalGames(table, b) ==
    SumOver(DOMAIN table, [u \in DOMAIN table |-> table[u][b].nb_games])

TotalExact(table, b) ==
    SumOver(DOMAIN table, [u \in DOMAIN table |-> table[u][b].time_spent_exact])

(* C20: for each bucket the sum over all players of game_count is 2 times   *)
(* the number of qualifying games of the bucket, and the sum over all       *)
(* players of exact_seconds_total is 2 times the sum of those games' exact  *)
(* durations, also when both identities of a game are the same string.      *)
(* Stated step by step: the sums are 0 before the first game, every         *)
(* end_game of a qualifying game adds 2 and 2 * exact_duration to the sums  *)
(* of its bucket, and no other step changes a sum.                          *)
C20_TwoCredits ==
    [][/\ games = 0 => users = <<>>
       /\ \A b \in Buckets :
             LET credited == /\ EndGameStep /\ Qualifying(game)
                             /\ b = BucketOf(AvgOf(game))
                 q == IF credited THEN 1 ELSE 0
                 exact == IF credited
                          THEN Credit(game) - ClockSum(game.last_two_comments)
                          ELSE 0
             IN  /\ TotalGames(users', b) = TotalGames(users, b) + 2 * q
                 /\ TotalExact(users', b) = TotalExact(users, b) + 2 * exact]_vars

\* a game of one username against itself, of 2 seconds, has been recorded
\* after a game between two usernames
C20_Witness ==
    /\ pc = "idle"
    /\ games = 2
    /\ Cardinality(DOMAIN users) = 2
    /\ IsSome(finished)
    /\ Unwrap(finished).plies >= 4
    /\ Unwrap(finished).exact_duration_opt = Some(2)
    /\ Unwrap(finished).players.white.username
          = Unwrap(finished).players.black.username

===========================================================================
